---- MODULE Spec2Model ----
(***************************************************************************)
(* A model of the TVer subtitle extractor content script                   *)
(* (class TVerSubtitleExtractor) together with the part of the page and    *)
(* of the browser it talks to: the caption elements, the overlay node, the *)
(* video element, the fullscreen element, the observers, listeners, timers *)
(* and animation frames the controller registers.                          *)
(*                                                                         *)
(* Strings are sequences of one-character strings; " " is the whitespace   *)
(* character.  Lengths in pixels are integers; a horizontal position is    *)
(* kept in half pixels (left2 = 2 * left) because the code halves a width. *)
(***************************************************************************)
EXTENDS Integers, Sequences, FiniteSets, TLC

VARIABLES
    \* ---- fields of the TVerSubtitleExtractor object
    enabled,                 \* this.enabled
    currentSubtitleText,     \* this.currentSubtitleText
    nativeSubtitleElements,  \* this.nativeSubtitleElements (sequence of element ids)
    subtitleOverlay,         \* this.subtitleOverlay: "null" or "ov"
    videoElement,            \* this.videoElement: "null" or a video id
    observer,                \* this.observer: TRUE when a (connected) MutationObserver is held
    resizeObserver,          \* this.resizeObserver: TRUE when a ResizeObserver is held
    pendingPositionUpdate,   \* this.pendingPositionUpdate
    \* ---- what the browser holds for the controller
    storageRead,             \* TRUE while the storage.local.get of the constructor is unresolved
    leakedResizeObservers,   \* connected ResizeObservers the controller no longer references
    listeners,               \* event names with the controller's listener attached
    timers,                  \* pending fullscreen settle timers (setTimeout 100)
    frames,                  \* outstanding requestAnimationFrame callbacks
    throttled,               \* the watcher's throttle: TRUE while now - lastCall < checkInterval
    mutationPending,         \* mutation records queued for the MutationObserver
    threw,                   \* TRUE once a callback ended with an uncaught exception
    \* ---- the page
    elem,                    \* element id -> [present, text, display, marker, original]
    overlay,                 \* the overlay node: parent, text, style, data-original-display
    overlayNodes,            \* overlay nodes made by document.createElement so far
    docVideo,                \* the first <video> of the document ("null" when none)
    videoRect,               \* getBoundingClientRect() of the video in the document
    fullscreenElement,       \* document.fullscreenElement: "none" or an element
    playerFsClass,           \* the player container carries a fullscreen class
    \* ---- the rest of the extension: storage, background script, popup
    stored,                  \* storage.local 'enabled': "undefined", "false" or "true"
    installed,               \* the onInstalled handler: "get", "set" or "done"
    tabUpdate,               \* the tabs.onUpdated handler for the tab: "idle", "get", "done"
    popup,                   \* the popup: state, toggle.checked, status label, clicks
    sets,                    \* storage.local.set calls of the popup that have not landed
    inbox,                   \* toggleSubtitles messages on their way to the tab
    \* ---- arguments and result of a function applied on its own
    fnArgs,
    fnResult

controllerVars ==
        << enabled, currentSubtitleText, nativeSubtitleElements, subtitleOverlay,
           videoElement, observer, resizeObserver, pendingPositionUpdate,
           storageRead, leakedResizeObservers, listeners, timers, frames,
           throttled, mutationPending, threw,
           elem, overlay, overlayNodes, docVideo, videoRect, fullscreenElement,
           playerFsClass >>

extensionVars == << stored, installed, tabUpdate, popup, sets, inbox >>

vars == << enabled, currentSubtitleText, nativeSubtitleElements, subtitleOverlay,
           videoElement, observer, resizeObserver, pendingPositionUpdate,
           storageRead, leakedResizeObservers, listeners, timers, frames,
           throttled, mutationPending, threw,
           elem, overlay, overlayNodes, docVideo, videoRect, fullscreenElement,
           playerFsClass,
           stored, installed, tabUpdate, popup, sets, inbox,
           fnArgs, fnResult >>

----------------------------------------------------------------------------
(* Bounds of the model *)

\* Most ResizeObservers left connected without a reference to them.
MaxLeaked == 1
\* Most fullscreen settle timers pending at once.
MaxTimers == 1
\* Most elements of a page given to the caption extractor on its own.
MaxElems == 3
\* Most changes of the popup's toggle by the user.
MaxClicks == 2
\* Largest coordinate given to calculateOverlayPosition on its own, in units of
\* 200 pixels.
MaxCoord == 4

----------------------------------------------------------------------------
(* Strings *)

Space == " "

RECURSIVE TrimStart(_)
TrimStart(s) ==
    IF s # << >> /\ Head(s) = Space THEN TrimStart(Tail(s)) ELSE s

RECURSIVE TrimEnd(_)
TrimEnd(s) ==
    IF s # << >> /\ s[Len(s)] = Space THEN TrimEnd(SubSeq(s, 1, Len(s) - 1)) ELSE s

\* String.prototype.trim
Trim(s) == TrimEnd(TrimStart(s))

\* Array.prototype.join(' ')
RECURSIVE Join(_)
Join(parts) ==
    IF parts = << >> THEN << >>
    ELSE IF Len(parts) = 1 THEN parts[1]
    ELSE parts[1] \o << Space >> \o Join(Tail(parts))

----------------------------------------------------------------------------
(* The page: elements, class names, rectangles *)

\* The platform's caption elements, in document order, and the class each carries.
CaptionIds == << "c1" >>

ClassOf(id) ==
    CASE id = "c1" -> "tver-caption"
      [] id = "ov" -> "tver-subtitle-overlay"

\* Class names a page element may carry (one class per element).
ClassNames ==
    { "tver-caption", "video-caption", "subtitle-text", "vjs-text-track-display",
      "caption-text", "my-captions", "subtitles-box", "player-ui" }

\* The class names that contain the given substring.
ClassesContaining(sub) ==
    CASE sub = "caption" ->
           { "tver-caption", "video-caption", "caption-text", "my-captions" }
      [] sub = "subtitle" ->
           { "subtitle-text", "subtitles-box", "tver-subtitle-overlay" }

\* element.matches(selector) for the selectors of the list, by class name.
SelectorMatches(selector, className) ==
    CASE selector = ".tver-caption"            -> className = "tver-caption"
      [] selector = ".video-caption"           -> className = "video-caption"
      [] selector = ".subtitle-text"           -> className = "subtitle-text"
      [] selector = ".vjs-text-track-display"  -> className = "vjs-text-track-display"
      [] selector = ".caption-text"            -> className = "caption-text"
      [] selector = "[class*=\"caption\"]"         -> className \in ClassesContaining("caption")
      [] selector = "[class*=\"subtitle\"]"        -> className \in ClassesContaining("subtitle")

\* document.querySelectorAll(selector): the matching elements in document order.
\* A document is a sequence of [id, className, text] records.
querySelectorAll(doc, selector) ==
    LET Test(e) == SelectorMatches(selector, e.className)
    IN  SelectSeq(doc, Test)

possibleSubtitleSelectors ==
    << ".tver-caption", ".video-caption", ".subtitle-text", ".vjs-text-track-display",
       ".caption-text", "[class*=\"caption\"]", "[class*=\"subtitle\"]" >>

RECURSIVE FirstMatchFrom(_, _)
FirstMatchFrom(doc, i) ==
    IF i > Len(possibleSubtitleSelectors) THEN << >>
    ELSE LET elements == querySelectorAll(doc, possibleSubtitleSelectors[i])
         IN  IF Len(elements) > 0 THEN elements ELSE FirstMatchFrom(doc, i + 1)

\* Mutant: the selector list is walked from its end.
RECURSIVE LastMatchFrom(_, _)
LastMatchFrom(doc, i) ==
    IF i < 1 THEN << >>
    ELSE LET elements == querySelectorAll(doc, possibleSubtitleSelectors[i])
         IN  IF Len(elements) > 0 THEN elements ELSE LastMatchFrom(doc, i - 1)

findSubtitleElements_reversed(doc) ==
    LastMatchFrom(doc, Len(possibleSubtitleSelectors))

findSubtitleElements(doc) == FirstMatchFrom(doc, 1)

RECURSIVE TextParts(_)
TextParts(elements) ==
    IF elements = << >> THEN << >>
    ELSE LET content == Trim(Head(elements).text)
         IN  IF content # << >>
             THEN << content >> \o TextParts(Tail(elements))
             ELSE TextParts(Tail(elements))

\* Mutant: the text is pushed untrimmed.
RECURSIVE TextPartsRaw(_)
TextPartsRaw(elements) ==
    IF elements = << >> THEN << >>
    ELSE LET content == Head(elements).text
         IN  IF Trim(content) # << >>
             THEN << content >> \o TextPartsRaw(Tail(elements))
             ELSE TextPartsRaw(Tail(elements))

extractSubtitleText_untrimmed(elements) == Join(TextPartsRaw(elements))

extractSubtitleText(elements) == Join(TextParts(elements))

\* window.innerWidth / window.innerHeight of the page.
Window == [ innerWidth |-> 1200, innerHeight |-> 800 ]

\* Rectangles the video in the document takes as the page scrolls.
RectVisible == [ left |-> 100, top |-> 140, right |-> 740, bottom |-> 500, width |-> 640 ]
RectAbove   == [ left |-> 100, top |-> -660, right |-> 740, bottom |-> -300, width |-> 640 ]
RectLow     == [ left |-> 100, top |-> 500, right |-> 740, bottom |-> 860, width |-> 640 ]
Rects == { RectVisible, RectAbove, RectLow }

\* getBoundingClientRect() of an element that is not in the document.
ZeroRect == [ left |-> 0, top |-> 0, right |-> 0, bottom |-> 0, width |-> 0 ]

VideoIds == { "v1", "v2" }

\* Mutant: the rectangle must lie inside the viewport, not merely reach into it.
isElementInViewport_inside(window, rect) ==
    /\ rect.top >= 0
    /\ rect.bottom <= window.innerHeight
    /\ rect.left >= 0
    /\ rect.right <= window.innerWidth

isElementInViewport(window, rect) ==
    /\ rect.top < window.innerHeight
    /\ rect.bottom > 0
    /\ rect.left < window.innerWidth
    /\ rect.right > 0

Max(a, b) == IF a >= b THEN a ELSE b

\* Mutant: the lower limit of the bottom offset is dropped.
calculateOverlayPosition_nomax(window, videoRect0, isFullscreen) ==
    IF isFullscreen
    THEN [ left2 |-> window.innerWidth, bottom |-> 80 ]
    ELSE [ left2 |-> 2 * videoRect0.left + videoRect0.width,
           bottom |-> window.innerHeight - videoRect0.bottom + 20 ]

\* left2 is twice the left of the code (window.innerWidth / 2, left + width / 2).
calculateOverlayPosition(window, videoRect0, isFullscreen) ==
    IF isFullscreen
    THEN [ left2 |-> window.innerWidth, bottom |-> 80 ]
    ELSE [ left2 |-> 2 * videoRect0.left + videoRect0.width,
           bottom |-> Max(10, window.innerHeight - videoRect0.bottom + 20) ]

----------------------------------------------------------------------------
(* The state as one record, on which the methods of the class operate *)

World ==
    [ enabled |-> enabled, currentSubtitleText |-> currentSubtitleText,
      nativeSubtitleElements |-> nativeSubtitleElements,
      subtitleOverlay |-> subtitleOverlay, videoElement |-> videoElement,
      observer |-> observer, resizeObserver |-> resizeObserver,
      pendingPositionUpdate |-> pendingPositionUpdate,
      leakedResizeObservers |-> leakedResizeObservers, listeners |-> listeners,
      timers |-> timers, frames |-> frames, throttled |-> throttled,
      mutationPending |-> mutationPending, threw |-> threw,
      elem |-> elem, overlay |-> overlay, overlayNodes |-> overlayNodes,
      docVideo |-> docVideo,
      videoRect |-> videoRect, fullscreenElement |-> fullscreenElement,
      playerFsClass |-> playerFsClass ]

\* The overlay node before document.createElement made it.
NoOverlay ==
    [ parent |-> "none", text |-> << >>, display |-> "", marker |-> "absent",
      opacity |-> "", zIndex |-> "", fontSize |-> "", hidden |-> FALSE, pos |-> << >> ]

\* Whether a node with this parent is in the document.  The player container is a
\* descendant of the body and holds the video of the document.
InDocument(w, parent) ==
    parent \in { "body", "container" } \/ (parent # "null" /\ parent = w.docVideo)

\* document.body.contains(node) for a node with this parent.
BodyContains(w, parent) == InDocument(w, parent)

\* ancestor.contains(node) for a node with this parent; ancestor is the fullscreen
\* element: the document element ("root"), the player container or a video.
Contains(w, ancestor, parent) ==
    CASE ancestor = "root"      -> InDocument(w, parent)
      [] ancestor = "container" -> parent = "container" \/ (parent # "null" /\ parent = w.docVideo)
      [] OTHER                  -> parent = ancestor

\* ancestor.contains(video)
ContainsVideo(w, ancestor, video) ==
    CASE ancestor = "root"      -> video = w.docVideo
      [] ancestor = "container" -> video = w.docVideo
      [] OTHER                  -> video = ancestor

\* A childList or characterData change below document.body queues a record for a
\* connected MutationObserver.
Mutated(w) == [ w EXCEPT !.mutationPending = w.observer ]

\* The document as the selectors see it: the caption elements present, then the
\* overlay (appended last to its parent) when it is in the document.
RECURSIVE CaptionDoc(_, _)
CaptionDoc(w, i) ==
    IF i > Len(CaptionIds) THEN << >>
    ELSE LET id == CaptionIds[i]
         IN  (IF w.elem[id].present
              THEN << [ id |-> id, className |-> ClassOf(id), text |-> w.elem[id].text ] >>
              ELSE << >>) \o CaptionDoc(w, i + 1)

Document(w) ==
    CaptionDoc(w, 1) \o
    (IF w.subtitleOverlay # "null" /\ InDocument(w, w.overlay.parent)
     THEN << [ id |-> "ov", className |-> ClassOf("ov"), text |-> w.overlay.text ] >>
     ELSE << >>)

\* element.style.display and element.dataset.originalDisplay of an element by id.
DisplayOf(w, id) == IF id = "ov" THEN w.overlay.display ELSE w.elem[id].display
MarkerOf(w, id)  == IF id = "ov" THEN w.overlay.marker ELSE w.elem[id].marker

SetDisplayMarker(w, id, d, m) ==
    IF id = "ov"
    THEN [ w EXCEPT !.overlay.display = d, !.overlay.marker = m ]
    ELSE [ w EXCEPT !.elem[id].display = d, !.elem[id].marker = m ]

\* getBoundingClientRect() of the tracked video element.
BoundingClientRect(w, video) == IF video = w.docVideo THEN w.videoRect ELSE ZeroRect

----------------------------------------------------------------------------
(* Methods of TVerSubtitleExtractor *)

isVideoFullscreen(w) ==
    LET fs == w.fullscreenElement
    IN  \/ (fs # "none" /\ fs = w.videoElement)
        \/ (fs # "none" /\ w.videoElement # "null" /\ ContainsVideo(w, fs, w.videoElement))
        \/ (w.videoElement # "null" /\ w.videoElement = w.docVideo /\ w.playerFsClass)

\* Mutant: the pendingPositionUpdate flag is not consulted.
requestPositionUpdate_unguarded(w) ==
    [ w EXCEPT !.pendingPositionUpdate = TRUE, !.frames = @ + 1 ]

requestPositionUpdate(w) ==
    IF ~w.pendingPositionUpdate
    THEN [ w EXCEPT !.pendingPositionUpdate = TRUE, !.frames = @ + 1 ]
    ELSE w

\* Mutant: the enabled guards are missing.
positionSubtitleOverlay_noguard(w) ==
    IF w.subtitleOverlay = "null" \/ w.videoElement = "null" THEN w
    ELSE
        LET videoRect0   == BoundingClientRect(w, w.videoElement)
            isFullscreen == isVideoFullscreen(w)
        IN  IF ~isFullscreen /\ ~isElementInViewport(Window, videoRect0)
            THEN [ w EXCEPT !.overlay.opacity = "0" ]
            ELSE
                LET position == calculateOverlayPosition(Window, videoRect0, isFullscreen)
                    w1 == [ w EXCEPT !.overlay.pos = << position.left2, position.bottom >>,
                                     !.overlay.fontSize = IF isFullscreen THEN "48px" ELSE "28px" ]
                IN  IF w1.currentSubtitleText # << >>
                    THEN [ w1 EXCEPT !.overlay.opacity = "1" ]
                    ELSE w1

positionSubtitleOverlay(w) ==
    IF w.subtitleOverlay = "null" \/ w.videoElement = "null" \/ ~w.enabled THEN w
    ELSE
        LET videoRect0   == BoundingClientRect(w, w.videoElement)
            isFullscreen == isVideoFullscreen(w)
        IN  IF ~isFullscreen /\ ~isElementInViewport(Window, videoRect0)
            THEN [ w EXCEPT !.overlay.opacity = "0" ]
            ELSE
                LET position == calculateOverlayPosition(Window, videoRect0, isFullscreen)
                    w1 == [ w EXCEPT !.overlay.pos = << position.left2, position.bottom >>,
                                     !.overlay.fontSize = IF isFullscreen THEN "48px" ELSE "28px" ]
                IN  IF w1.currentSubtitleText # << >> /\ w1.enabled
                    THEN [ w1 EXCEPT !.overlay.opacity = "1" ]
                    ELSE w1

\* Mutant: the enabled guard is missing.
updateSubtitleOverlay_noguard(w, text) ==
    IF w.subtitleOverlay = "null" THEN w
    ELSE
        LET w1 == Mutated([ w EXCEPT !.overlay.text = text,
                                     !.overlay.opacity = "1",
                                     !.overlay.display = "block" ])
            w2 == [ w1 EXCEPT !.overlay.fontSize =
                                  IF isVideoFullscreen(w1) THEN "48px" ELSE "28px" ]
        IN  requestPositionUpdate(w2)

updateSubtitleOverlay(w, text) ==
    IF w.subtitleOverlay = "null" \/ ~w.enabled THEN w
    ELSE
        LET w1 == Mutated([ w EXCEPT !.overlay.text = text,
                                     !.overlay.opacity = "1",
                                     !.overlay.display = "block" ])
            w2 == [ w1 EXCEPT !.overlay.fontSize =
                                  IF isVideoFullscreen(w1) THEN "48px" ELSE "28px" ]
        IN  requestPositionUpdate(w2)

RECURSIVE HideEach(_, _)
HideEach(w, ids) ==
    IF ids = << >> THEN w
    ELSE LET id == Head(ids)
             m  == MarkerOf(w, id)
             \* !element.dataset.originalDisplay: unset or the empty string
             m1 == IF m \in { "absent", "" } THEN DisplayOf(w, id) ELSE m
         IN  HideEach(SetDisplayMarker(w, id, "none", m1), Tail(ids))

hideNativeSubtitles(w) ==
    IF ~w.enabled THEN w ELSE HideEach(w, w.nativeSubtitleElements)

RECURSIVE ShowEach(_, _)
ShowEach(w, ids) ==
    IF ids = << >> THEN w
    ELSE LET id == Head(ids)
             m  == MarkerOf(w, id)
             originalDisplay == IF m = "absent" THEN "" ELSE m
             d  == IF originalDisplay = "none" THEN "block" ELSE originalDisplay
         IN  ShowEach(SetDisplayMarker(w, id, d, "absent"), Tail(ids))

showNativeSubtitles(w) == ShowEach(w, w.nativeSubtitleElements)

Ids(elements) == [ i \in 1..Len(elements) |-> elements[i].id ]

\* Mutant: the extracted text is not compared with the cached text.
checkForSubtitles_always(w) ==
    IF ~w.enabled THEN w
    ELSE
        LET subtitleElements == findSubtitleElements(Document(w))
        IN  IF Len(subtitleElements) > 0
            THEN
                LET w1 == [ w EXCEPT !.nativeSubtitleElements = Ids(subtitleElements) ]
                    subtitleText == extractSubtitleText(subtitleElements)
                    w2 == IF subtitleText # << >>
                          THEN updateSubtitleOverlay(
                                   [ w1 EXCEPT !.currentSubtitleText = subtitleText ],
                                   subtitleText)
                          ELSE w1
                IN  hideNativeSubtitles(w2)
            ELSE w

checkForSubtitles(w) ==
    IF ~w.enabled THEN w
    ELSE
        LET subtitleElements == findSubtitleElements(Document(w))
        IN  IF Len(subtitleElements) > 0
            THEN
                LET w1 == [ w EXCEPT !.nativeSubtitleElements = Ids(subtitleElements) ]
                    subtitleText == extractSubtitleText(subtitleElements)
                    w2 == IF subtitleText # << >> /\ subtitleText # w1.currentSubtitleText
                          THEN updateSubtitleOverlay(
                                   [ w1 EXCEPT !.currentSubtitleText = subtitleText ],
                                   subtitleText)
                          ELSE w1
                IN  hideNativeSubtitles(w2)
            ELSE w

setupResizeObserver(w) ==
    IF w.videoElement = "null" THEN w
    ELSE [ w EXCEPT !.leakedResizeObservers = IF w.resizeObserver THEN @ + 1 ELSE @,
                    !.resizeObserver = TRUE ]

findVideoElement(w) ==
    IF w.docVideo # "null"
    THEN setupResizeObserver(positionSubtitleOverlay([ w EXCEPT !.videoElement = w.docVideo ]))
    ELSE w

startMutationObserver(w) ==
    [ w EXCEPT !.observer = TRUE, !.mutationPending = FALSE, !.throttled = FALSE ]

\* Mutant: a node is made on every call.
initializeSubtitleOverlay_fresh(w) ==
    Mutated([ w EXCEPT !.subtitleOverlay = "ov",
                       !.overlayNodes = @ + 1,
                       !.overlay = [ NoOverlay EXCEPT !.opacity = "0", !.parent = "body" ] ])

initializeSubtitleOverlay(w) ==
    IF w.subtitleOverlay = "null"
    THEN Mutated([ w EXCEPT !.subtitleOverlay = "ov",
                            !.overlayNodes = @ + 1,
                            !.overlay = [ NoOverlay EXCEPT !.opacity = "0", !.parent = "body" ] ])
    ELSE [ w EXCEPT !.overlay.hidden = FALSE,
                    !.overlay.display = "block",
                    !.overlay.opacity = "0" ]

EventNames == { "resize", "scroll", "fullscreenchange", "webkitfullscreenchange" }

addEventListeners(w) == [ w EXCEPT !.listeners = @ \cup EventNames ]

removeEventListeners(w) == [ w EXCEPT !.listeners = @ \ EventNames ]

\* Mutant: the cached text is kept.
initialize_keeptext(w) ==
    LET w1 == initializeSubtitleOverlay(w)
        w3 == findVideoElement(w1)
        w4 == startMutationObserver(w3)
    IN  addEventListeners(w4)

initialize(w) ==
    LET w1 == initializeSubtitleOverlay(w)
        w2 == [ w1 EXCEPT !.currentSubtitleText = << >> ]
        w3 == findVideoElement(w2)
        w4 == startMutationObserver(w3)
    IN  addEventListeners(w4)

\* Mutant: the overlay is dereferenced without the null guard.
hideOverlay_noguard(w) ==
    IF w.subtitleOverlay # "null"
    THEN [ w EXCEPT !.overlay.hidden = TRUE,
                    !.overlay.opacity = "0",
                    !.overlay.display = "none",
                    !.currentSubtitleText = << >> ]
    ELSE [ w EXCEPT !.threw = TRUE ]

hideOverlay(w) ==
    IF w.subtitleOverlay # "null"
    THEN [ w EXCEPT !.overlay.hidden = TRUE,
                    !.overlay.opacity = "0",
                    !.overlay.display = "none",
                    !.currentSubtitleText = << >> ]
    ELSE w

disconnectObservers(w) ==
    [ w EXCEPT !.observer = FALSE,
               !.mutationPending = IF w.observer THEN FALSE ELSE @,
               !.resizeObserver = FALSE ]

cleanup(w) ==
    LET w1 == disconnectObservers(w)
        w2 == showNativeSubtitles(w1)
        w3 == [ w2 EXCEPT !.nativeSubtitleElements = << >> ]
        w4 == hideOverlay(w3)
    IN  removeEventListeners(w4)

handleResize(w) == IF w.enabled THEN requestPositionUpdate(w) ELSE w

handleScroll(w) == IF w.enabled THEN requestPositionUpdate(w) ELSE w

\* The listener: schedules the settle timer.
handleFullscreenChange(w) ==
    IF ~w.enabled THEN w ELSE [ w EXCEPT !.timers = @ + 1 ]

\* Mutant: the overlay is restyled where it is, never moved.
fullscreenSettled_inplace(w) ==
    IF w.subtitleOverlay = "null"
    THEN [ w EXCEPT !.threw = TRUE ]
    ELSE
        LET isFullscreen == isVideoFullscreen(w)
            w1 == IF isFullscreen
                  THEN [ w EXCEPT !.overlay.zIndex = "9999999",
                                  !.overlay.fontSize = "48px" ]
                  ELSE
                      IF ~BodyContains(w, w.overlay.parent)
                      THEN Mutated([ w EXCEPT !.overlay.parent = "body",
                                              !.overlay.zIndex = "9999",
                                              !.overlay.fontSize = "28px" ])
                      ELSE w
            w2 == requestPositionUpdate(w1)
        IN  IF w2.currentSubtitleText # << >>
            THEN updateSubtitleOverlay(w2, w2.currentSubtitleText)
            ELSE w2

\* The body of the settle timer of handleFullscreenChange.
fullscreenSettled(w) ==
    IF w.subtitleOverlay = "null"
    THEN [ w EXCEPT !.threw = TRUE ]      \* appendChild(null) / null.style
    ELSE
        LET isFullscreen == isVideoFullscreen(w)
            fullscreenContainer == w.fullscreenElement
            w1 == IF isFullscreen
                  THEN
                      LET a == IF fullscreenContainer # "none"
                                  /\ ~Contains(w, fullscreenContainer, w.overlay.parent)
                               THEN Mutated([ w EXCEPT !.overlay.parent = fullscreenContainer ])
                               ELSE w
                      IN  [ a EXCEPT !.overlay.zIndex = "9999999",
                                     !.overlay.fontSize = "48px" ]
                  ELSE
                      IF ~BodyContains(w, w.overlay.parent)
                      THEN Mutated([ w EXCEPT !.overlay.parent = "body",
                                              !.overlay.zIndex = "9999",
                                              !.overlay.fontSize = "28px" ])
                      ELSE w
            w2 == requestPositionUpdate(w1)
        IN  IF w2.currentSubtitleText # << >>
            THEN updateSubtitleOverlay(w2, w2.currentSubtitleText)
            ELSE w2

\* The throttled callback of the MutationObserver, once the throttle let it through.
observerCallback(w) ==
    LET w1 == IF w.videoElement = "null" THEN findVideoElement(w) ELSE w
        w2 == checkForSubtitles(w1)
    IN  requestPositionUpdate(w2)

----------------------------------------------------------------------------
(* Initial state and steps *)

\* Inline display values a caption element may have before the controller touches it.
OrigDisplays == { "", "none", "inline" }

\* Text contents the platform gives a caption element.
CaptionTexts(id) ==
    { << >>, << "a" >>, << " ", "b" >> }

CaptionSet == { CaptionIds[i] : i \in 1..Len(CaptionIds) }

FullscreenElements == { "none", "container", "root" }

NoArgs == [ fn |-> "none" ]

\* The controller after its constructor, on a page with one caption element.
InitController ==
    /\ enabled = FALSE
    /\ currentSubtitleText = << >>
    /\ nativeSubtitleElements = << >>
    /\ subtitleOverlay = "null"
    /\ videoElement = "null"
    /\ observer = FALSE
    /\ resizeObserver = FALSE
    /\ pendingPositionUpdate = FALSE
    /\ storageRead = TRUE
    /\ leakedResizeObservers = 0
    /\ listeners = { }
    /\ timers = 0
    /\ frames = 0
    /\ throttled = FALSE
    /\ mutationPending = FALSE
    /\ threw = FALSE
    /\ \E d \in OrigDisplays :
          elem = [ id \in CaptionSet |->
                     [ present |-> TRUE,
                       text    |-> << "a" >>,
                       display |-> d,
                       original |-> d,
                       marker  |-> "absent" ] ]
    /\ overlay = NoOverlay
    /\ overlayNodes = 0
    /\ docVideo \in { "null", "v1" }
    /\ videoRect = RectVisible
    /\ fullscreenElement = "none"
    /\ playerFsClass = FALSE

\* The popup before it is opened.
PopupClosed == [ state |-> "closed", checked |-> FALSE, label |-> "", clicks |-> 0 ]

\* An installed extension whose popup stays closed: nothing is on its way.
ExtensionIdle ==
    /\ stored = "undefined"
    /\ installed = "done"
    /\ tabUpdate = "idle"
    /\ popup = PopupClosed
    /\ sets = << >>
    /\ inbox = << >>

Init ==
    /\ InitController
    /\ ExtensionIdle
    /\ fnArgs = NoArgs
    /\ fnResult = NoArgs

\* The counters of the model stay within their bounds.
Bounded(w) ==
    /\ w.leakedResizeObservers <= MaxLeaked
    /\ w.timers <= MaxTimers

\* The world a callback leaves becomes the next state.
Assign(w) ==
    /\ \E x \in { w } :
          /\ Bounded(x)
          /\ enabled' = x.enabled
          /\ currentSubtitleText' = x.currentSubtitleText
          /\ nativeSubtitleElements' = x.nativeSubtitleElements
          /\ subtitleOverlay' = x.subtitleOverlay
          /\ videoElement' = x.videoElement
          /\ observer' = x.observer
          /\ resizeObserver' = x.resizeObserver
          /\ pendingPositionUpdate' = x.pendingPositionUpdate
          /\ leakedResizeObservers' = x.leakedResizeObservers
          /\ listeners' = x.listeners
          /\ timers' = x.timers
          /\ frames' = x.frames
          /\ throttled' = x.throttled
          /\ mutationPending' = x.mutationPending
          /\ threw' = x.threw
          /\ elem' = x.elem
          /\ overlay' = x.overlay
          /\ overlayNodes' = x.overlayNodes
          /\ docVideo' = x.docVideo
          /\ videoRect' = x.videoRect
          /\ fullscreenElement' = x.fullscreenElement
          /\ playerFsClass' = x.playerFsClass
    /\ UNCHANGED << fnArgs, fnResult >>

\* A step of the controller or the page: the rest of the extension stays as it is.
Apply(w) ==
    /\ Assign(w)
    /\ UNCHANGED extensionVars

\* loadStateFromStorage: the promise of storage.local.get resolves with the value.
loadStateFromStorage(w, value) ==
    LET w1 == [ w EXCEPT !.enabled = value ]
    IN  IF w1.enabled THEN initialize(w1) ELSE w1

\* The value is whatever the store holds when the read is served.
StorageResolved ==
    /\ storageRead
    /\ \E value \in BOOLEAN : Apply(loadStateFromStorage(World, value))
    /\ storageRead' = FALSE

\* loadStateFromStorage: the promise rejects and the error is logged.
StorageFailed ==
    /\ storageRead
    /\ storageRead' = FALSE
    /\ Apply(World)

\* setupMessageListener: a toggleSubtitles message arrives.
onMessage(w, value) ==
    LET w1 == [ w EXCEPT !.enabled = value ]
    IN  IF w1.enabled THEN initialize(w1) ELSE cleanup(w1)

\* A message of any sender, with either value.
ToggleMessage ==
    /\ \E value \in BOOLEAN : Apply(onMessage(World, value))
    /\ UNCHANGED storageRead

\* The platform rewrites the text of a caption element.
CaptionText ==
    /\ \E id \in CaptionSet : \E t \in CaptionTexts(id) :
          /\ elem[id].present
          /\ t # elem[id].text
          /\ Apply(Mutated([ World EXCEPT !.elem[id].text = t ]))
    /\ UNCHANGED storageRead

\* The platform inserts or removes a caption element.
CaptionAttach ==
    /\ \E id \in CaptionSet :
          Apply(Mutated([ World EXCEPT !.elem[id].present = ~@ ]))
    /\ UNCHANGED storageRead

\* The player mounts, unmounts or replaces its video element.
SetVideo ==
    /\ \E v \in VideoIds \cup { "null" } :
          /\ v # docVideo
          /\ Apply(Mutated([ World EXCEPT !.docVideo = v ]))
    /\ UNCHANGED storageRead

\* The page scrolls: the video's rectangle moves.
ScrollPage ==
    /\ \E r \in Rects :
          /\ r # videoRect
          /\ Apply([ World EXCEPT !.videoRect = r ])
    /\ UNCHANGED storageRead

\* The player adds or removes its fullscreen class.
PlayerClass ==
    /\ Apply([ World EXCEPT !.playerFsClass = ~@ ])
    /\ UNCHANGED storageRead

\* The MutationObserver delivers its records and the throttle lets the callback run.
MutationCallback ==
    /\ observer /\ mutationPending /\ ~throttled
    /\ Apply(observerCallback([ World EXCEPT !.mutationPending = FALSE,
                                            !.throttled = TRUE ]))
    /\ UNCHANGED storageRead

\* The MutationObserver delivers its records within checkInterval of the last run.
MutationThrottled ==
    /\ observer /\ mutationPending /\ throttled
    /\ Apply([ World EXCEPT !.mutationPending = FALSE ])
    /\ UNCHANGED storageRead

\* checkInterval milliseconds pass since the watcher last ran.
TimePasses ==
    /\ throttled /\ ~mutationPending
    /\ Apply([ World EXCEPT !.throttled = FALSE ])
    /\ UNCHANGED storageRead

\* A connected ResizeObserver (referenced or not) runs its callback.
ResizeObserved ==
    /\ resizeObserver \/ leakedResizeObservers > 0
    /\ Apply(positionSubtitleOverlay(World))
    /\ UNCHANGED storageRead

\* A resize event reaches boundHandleResize.
WindowResize ==
    /\ "resize" \in listeners
    /\ Apply(handleResize(World))
    /\ UNCHANGED storageRead

\* A scroll event reaches boundHandleScroll.
WindowScroll ==
    /\ "scroll" \in listeners
    /\ Apply(handleScroll(World))
    /\ UNCHANGED storageRead

\* The document enters or leaves fullscreen; the fullscreenchange event is
\* dispatched to the listener when it is attached.
FullscreenChange ==
    /\ \E fs \in FullscreenElements :
          /\ fs # fullscreenElement
          /\ LET w == [ World EXCEPT !.fullscreenElement = fs ]
             IN  Apply(IF "fullscreenchange" \in listeners
                       THEN handleFullscreenChange(w) ELSE w)
    /\ UNCHANGED storageRead

\* A settle timer of handleFullscreenChange fires.
SettleTimer ==
    /\ timers > 0
    /\ Apply(fullscreenSettled([ World EXCEPT !.timers = @ - 1 ]))
    /\ UNCHANGED storageRead

\* The animation frame callback of requestPositionUpdate runs.
AnimationFrame ==
    /\ frames > 0
    /\ Apply([ positionSubtitleOverlay([ World EXCEPT !.frames = @ - 1 ])
                 EXCEPT !.pendingPositionUpdate = FALSE ])
    /\ UNCHANGED storageRead

\* The callbacks of the controller that every page can trigger.
Controller ==
    \/ StorageResolved
    \/ StorageFailed
    \/ ToggleMessage
    \/ MutationCallback
    \/ MutationThrottled
    \/ TimePasses
    \/ ResizeObserved
    \/ WindowResize
    \/ WindowScroll
    \/ AnimationFrame

\* A page whose captions change while the player stays as it is.
Next ==
    \/ Controller
    \/ CaptionText
    \/ CaptionAttach

Spec == Init /\ [][Next]_vars

\* A page whose player scrolls and re-mounts its video under a steady caption.
InitPlayer ==
    /\ Init
    /\ docVideo = "v1"
    /\ elem["c1"].display = ""

NextVideo ==
    \/ Controller
    \/ SetVideo
    \/ ScrollPage

SpecVideo == InitPlayer /\ [][NextVideo]_vars

\* A page whose player enters and leaves fullscreen.
NextFullscreen ==
    \/ Controller
    \/ CaptionText
    \/ FullscreenChange
    \/ PlayerClass
    \/ SettleTimer

SpecFullscreen == InitPlayer /\ [][NextFullscreen]_vars

\* A page that scrolls and changes fullscreen while the controller is switched
\* on and off.
NextLate ==
    \/ Controller
    \/ ScrollPage
    \/ FullscreenChange
    \/ SettleTimer

SpecLate == InitPlayer /\ [][NextLate]_vars

----------------------------------------------------------------------------
(* The extension around the controller: storage, background script, popup *)

\* result.enabled ?? false
EnabledOr(value) == value = "true"

StoredValue(b) == IF b THEN "true" ELSE "false"

\* Mutant: the label is the wrong way round.
updateStatus_swapped(enabled0) == IF enabled0 THEN "Off" ELSE "On"

\* updateStatus of the popup: the text of the status element.
updateStatus(enabled0) == IF enabled0 THEN "On" ELSE "Off"

\* A step of the extension that leaves the controller and its page alone.
ControllerIdle == UNCHANGED << controllerVars, fnArgs, fnResult >>

\* runtime.onInstalled: storage.local.get resolves.
InstalledRead ==
    /\ installed = "get"
    /\ installed' = IF stored = "undefined" THEN "set" ELSE "done"
    /\ UNCHANGED << stored, tabUpdate, popup, sets, inbox >>
    /\ ControllerIdle

\* runtime.onInstalled: storage.local.set({ enabled: false }) lands.
InstalledWrite ==
    /\ installed = "set"
    /\ stored' = "false"
    /\ installed' = "done"
    /\ UNCHANGED << tabUpdate, popup, sets, inbox >>
    /\ ControllerIdle

\* tabs.onUpdated: the tab reports status complete on a URL of the site.
TabComplete ==
    /\ tabUpdate = "idle"
    /\ tabUpdate' = "get"
    /\ UNCHANGED << stored, installed, popup, sets, inbox >>
    /\ ControllerIdle

\* tabs.onUpdated: storage.local.get resolves; the message is sent when enabled.
TabUpdateResolved ==
    /\ tabUpdate = "get"
    /\ tabUpdate' = "done"
    /\ LET enabled0 == EnabledOr(stored)
       IN  inbox' = IF enabled0 THEN Append(inbox, enabled0) ELSE inbox
    /\ UNCHANGED << stored, installed, popup, sets >>
    /\ ControllerIdle

\* initializePopup: the popup document is loaded and asks the store.
PopupOpen ==
    /\ popup.state = "closed"
    /\ popup' = [ popup EXCEPT !.state = "loading" ]
    /\ UNCHANGED << stored, installed, tabUpdate, sets, inbox >>
    /\ ControllerIdle

\* loadStateFromStorage of the popup: the read resolves.
PopupLoaded ==
    /\ popup.state = "loading"
    /\ LET enabled0 == EnabledOr(stored)
       IN  popup' = [ popup EXCEPT !.state = "ready",
                                   !.checked = enabled0,
                                   !.label = updateStatus(enabled0) ]
    /\ UNCHANGED << stored, installed, tabUpdate, sets, inbox >>
    /\ ControllerIdle

\* loadStateFromStorage of the popup: the read fails.
PopupLoadFailed ==
    /\ popup.state = "loading"
    /\ popup' = [ popup EXCEPT !.state = "ready",
                               !.checked = FALSE,
                               !.label = updateStatus(FALSE) ]
    /\ UNCHANGED << stored, installed, tabUpdate, sets, inbox >>
    /\ ControllerIdle

\* handleToggleChange: the user flips the toggle.  The store is written, the label
\* updated and the message sent to the active tab (the tab of the controller).
\* The message to the background script has no effect there.
PopupToggle ==
    /\ popup.state \in { "loading", "ready" }
    /\ popup.clicks < MaxClicks
    /\ LET enabled0 == ~popup.checked
       IN  /\ popup' = [ popup EXCEPT !.checked = enabled0,
                                      !.label = updateStatus(enabled0),
                                      !.clicks = @ + 1 ]
           /\ sets' = Append(sets, enabled0)
           /\ inbox' = Append(inbox, enabled0)
    /\ UNCHANGED << stored, installed, tabUpdate >>
    /\ ControllerIdle

\* A storage.local.set of the popup lands.
StorageSetLanded ==
    /\ sets # << >>
    /\ stored' = StoredValue(Head(sets))
    /\ sets' = Tail(sets)
    /\ UNCHANGED << installed, tabUpdate, popup, inbox >>
    /\ ControllerIdle

\* setupMessageListener: the next message on its way reaches the listener.
TabMessage ==
    /\ inbox # << >>
    /\ Assign(onMessage(World, Head(inbox)))
    /\ inbox' = Tail(inbox)
    /\ UNCHANGED << stored, installed, tabUpdate, popup, sets, storageRead >>

\* loadStateFromStorage of the controller: the read resolves with the stored value.
StorageRead ==
    /\ storageRead
    /\ Assign(loadStateFromStorage(World, EnabledOr(stored)))
    /\ storageRead' = FALSE
    /\ UNCHANGED extensionVars

\* A fresh install: the onInstalled handler has fired, the tab of the controller
\* is loading (its player has not mounted a video yet), the popup is closed.
InitExtension ==
    /\ InitController
    /\ docVideo = "null"
    /\ elem["c1"].display = ""
    /\ stored = "undefined"
    /\ installed = "get"
    /\ tabUpdate = "idle"
    /\ popup = PopupClosed
    /\ sets = << >>
    /\ inbox = << >>
    /\ fnArgs = NoArgs
    /\ fnResult = NoArgs

NextExtension ==
    \/ InstalledRead
    \/ InstalledWrite
    \/ TabComplete
    \/ TabUpdateResolved
    \/ PopupOpen
    \/ PopupLoaded
    \/ PopupLoadFailed
    \/ PopupToggle
    \/ StorageSetLanded
    \/ TabMessage
    \/ StorageRead
    \/ StorageFailed

\* Promises settle and messages are delivered; the user and the tab are free.
FairExtension ==
    /\ WF_vars(InstalledRead)
    /\ WF_vars(InstalledWrite)
    /\ WF_vars(TabUpdateResolved)
    /\ WF_vars(StorageSetLanded)
    /\ WF_vars(TabMessage)
    /\ WF_vars(StorageRead \/ StorageFailed)

SpecExtension == InitExtension /\ [][NextExtension]_vars /\ FairExtension

----------------------------------------------------------------------------
(* The caption extractor applied on its own to every small page *)

\* Text contents of the elements of such a page.
TextPool == { << " " >>, << "a", " " >>, << " ", "b" >> }

\* Every variable of the controller and its page at rest.
AtRest ==
    /\ InitController
    /\ ExtensionIdle
    /\ docVideo = "v1"
    /\ elem["c1"].display = ""

InitExtract ==
    /\ AtRest
    /\ fnArgs = [ fn |-> "extract", doc |-> << >> ]
    /\ fnResult = NoArgs

\* The page grows by one element; an element's id is its place in the page.
AddElement ==
    /\ fnArgs.fn = "extract"
    /\ fnResult = NoArgs
    /\ Len(fnArgs.doc) < MaxElems
    /\ \E c \in ClassNames, t \in TextPool :
          fnArgs' = [ fnArgs EXCEPT !.doc =
                        Append(@, [ id |-> Len(@) + 1, className |-> c, text |-> t ]) ]
    /\ UNCHANGED << controllerVars, extensionVars, fnResult >>

ApplyExtract ==
    /\ fnArgs.fn = "extract"
    /\ fnResult = NoArgs
    /\ LET elements == findSubtitleElements(fnArgs.doc)
       IN  fnResult' = [ fn |-> "extract", elements |-> elements,
                         text |-> extractSubtitleText(elements) ]
    /\ UNCHANGED << controllerVars, extensionVars, fnArgs >>

NextExtract ==
    \/ AddElement
    \/ ApplyExtract

SpecExtract == InitExtract /\ [][NextExtract]_vars

\* The selectors of the list that match something on the page.
MatchingSelectors(doc) ==
    { i \in 1..Len(possibleSubtitleSelectors) :
        querySelectorAll(doc, possibleSubtitleSelectors[i]) # << >> }

\* The places, in order, of the elements whose trimmed text is not empty.
RECURSIVE SpokenPlaces(_, _)
SpokenPlaces(elements, n) ==
    IF n = 0 THEN << >>
    ELSE SpokenPlaces(elements, n - 1) \o
         (IF \E k \in 1..Len(elements[n].text) : elements[n].text[k] # Space
          THEN << n >> ELSE << >>)

\* The text between the first and the last character that is not whitespace.
Trimmed(s) ==
    LET inked == { k \in 1..Len(s) : s[k] # Space }
        lo == CHOOSE k \in inked : \A j \in inked : k <= j
        hi == CHOOSE k \in inked : \A j \in inked : k >= j
    IN  IF inked = { } THEN << >> ELSE SubSeq(s, lo, hi)

\* The texts at the given places joined by single spaces, built from the right.
RECURSIVE SpaceJoined(_, _, _)
SpaceJoined(elements, places, n) ==
    IF n = 0 THEN << >>
    ELSE IF n = 1 THEN Trimmed(elements[places[1]].text)
    ELSE SpaceJoined(elements, places, n - 1) \o << Space >> \o Trimmed(elements[places[n]].text)

\* C8: findSubtitleElements returns the match set of the first selector of the list
\* that matches anything (nothing when none does), and extractSubtitleText of it is
\* the trimmed non-empty texts of exactly those elements, in document order, joined
\* by single spaces; it is empty when nothing matches or every text is blank.
C8_FirstGroupSpaceJoined ==
    fnResult.fn = "extract" =>
        LET matching == MatchingSelectors(fnArgs.doc)
            first    == CHOOSE i \in matching : \A j \in matching : i <= j
            group    == IF matching = { } THEN << >>
                        ELSE querySelectorAll(fnArgs.doc, possibleSubtitleSelectors[first])
            places   == SpokenPlaces(group, Len(group))
        IN  /\ fnResult.elements = group
            /\ fnResult.text = SpaceJoined(group, places, Len(places))
            /\ (matching = { } \/ places = << >>) => fnResult.text = << >>

\* A page where a generic selector decides, an element is skipped as blank and two
\* texts are joined.
C8_Witness ==
    /\ fnResult.fn = "extract"
    /\ Len(fnResult.elements) = 3
    /\ MatchingSelectors(fnArgs.doc) = { 6 }
    /\ fnResult.text = << "a", " ", "b" >>

----------------------------------------------------------------------------
(* calculateOverlayPosition applied on its own to every small layout *)

\* Viewport sizes and rectangle coordinates, on a grid of 200 pixels.
GridSizes  == { 200 * k : k \in 1..MaxCoord }
GridCoords == { 200 * k : k \in (0 - MaxCoord)..MaxCoord }

\* Where the bottom edge of the video lies relative to the bottom of the viewport.
BottomOffsets == { -300, -20, 0, 9, 10, 11, 200 }

\* Widths of the video, one of them odd.
Widths == { 0, 1, 640 }

InitPosition ==
    /\ AtRest
    /\ fnArgs = [ fn |-> "layout" ]
    /\ fnResult = NoArgs

\* The page is laid out: a viewport, a rectangle of the video, a fullscreen state.
Layout ==
    /\ fnArgs.fn = "layout"
    /\ \E h \in GridSizes, wd \in { 200 * MaxCoord, 200 * MaxCoord + 1 },
          o \in BottomOffsets, l \in GridCoords, vw \in Widths, fs \in BOOLEAN :
          fnArgs' = [ fn |-> "position",
                      window |-> [ innerWidth |-> wd, innerHeight |-> h ],
                      rect |-> [ left |-> l, top |-> h + o - 360, right |-> l + vw,
                                 bottom |-> h + o, width |-> vw ],
                      isFullscreen |-> fs ]
    /\ UNCHANGED << controllerVars, extensionVars, fnResult >>

ApplyPosition ==
    /\ fnArgs.fn = "position"
    /\ fnResult = NoArgs
    /\ LET position == calculateOverlayPosition(fnArgs.window, fnArgs.rect,
                                                fnArgs.isFullscreen)
       IN  fnResult' = [ fn |-> "position", left2 |-> position.left2,
                         bottom |-> position.bottom ]
    /\ UNCHANGED << controllerVars, extensionVars, fnArgs >>

NextPosition ==
    \/ Layout
    \/ ApplyPosition

SpecPosition == InitPosition /\ [][NextPosition]_vars

\* C10: not fullscreen, the overlay is centred on the video (left = rect.left +
\* rect.width / 2, here doubled) and its bottom offset is the larger of 10 and
\* viewportHeight - rect.bottom + 20, hence never below 10, and 320 for a bottom of
\* 500 in a viewport 800 high; fullscreen, it is centred on the viewport with a
\* bottom offset of 80 whatever the rectangle.
C10_OverlayPosition ==
    fnResult.fn = "position" =>
        LET vh  == fnArgs.window.innerHeight
            gap == vh - fnArgs.rect.bottom + 20
        IN  IF fnArgs.isFullscreen
            THEN /\ fnResult.left2 = fnArgs.window.innerWidth
                 /\ fnResult.bottom = 80
            ELSE /\ fnResult.left2 = 2 * fnArgs.rect.left + fnArgs.rect.width
                 /\ fnResult.bottom >= 10
                 /\ fnResult.bottom >= gap
                 /\ fnResult.bottom \in { 10, gap }
                 /\ (fnArgs.rect.bottom = 500 /\ vh = 800) => fnResult.bottom = 320

\* The layout of the example: bottom 500 in a viewport 800 high, not fullscreen.
C10_Witness ==
    /\ fnResult.fn = "position"
    /\ ~fnArgs.isFullscreen
    /\ fnArgs.rect.bottom = 500
    /\ fnArgs.window.innerHeight = 800
    /\ fnResult.bottom = 320

----------------------------------------------------------------------------
(* Properties of the controller *)

\* A toggleSubtitles message with enabled false is processed (cleanup runs).
ToggleOff == ToggleMessage /\ ~enabled'

\* Nothing the controller registered can still call it.
Quiet ==
    /\ ~observer
    /\ ~resizeObserver
    /\ leakedResizeObservers = 0
    /\ listeners = { }
    /\ timers = 0
    /\ frames = 0

\* C1: once a toggle-off has been processed, nothing the controller registered is
\* left to fire: no mutation observer, no resize observer it ever created, no
\* resize / scroll / fullscreenchange listener, no settle timer, no animation frame.
C1_NoCallbackAfterCleanup == [][ ToggleOff => Quiet' ]_vars

\* C2: when the controller is switched off, every caption element has the inline
\* display it had before the controller first hid it, and no originalDisplay marker.
\* Stated for the elements whose inline display was not "none" to begin with (for
\* those showNativeSubtitles writes "block" on purpose).
C2_RestoredOnDisable ==
    [][ ToggleOff =>
          \A id \in CaptionSet :
              elem[id].original # "none" =>
                  /\ elem'[id].display = elem[id].original
                  /\ elem'[id].marker = "absent" ]_vars

\* C3: when, while enabled, the last settle timer runs and the video is not
\* fullscreen (the fullscreen that was entered has been left), the overlay is a child
\* of the document body again and its stacking order is the normal one.
C3_ExitRestoresOverlay ==
    [][ ( /\ SettleTimer
          /\ enabled
          /\ timers' = 0
          /\ fullscreenElement = "none"
          /\ ~isVideoFullscreen(World) )
        => ( /\ overlay'.parent = "body"
             /\ overlay'.zIndex # "9999999" ) ]_vars

\* What a user or the page can observe of the controller.
Observable ==
    << overlay.text, overlay.opacity, overlay.display = "none", currentSubtitleText,
       observer, resizeObserver, leakedResizeObservers, listeners,
       { id \in CaptionSet : elem[id].display = "none" } >>

\* C4: a toggle message that repeats the state the controller is in (on while
\* enabled, off while disabled) leaves the overlay's text and opacity, whether it is
\* displayed, the cached text, the observers, the listeners and the hidden elements
\* as they were.
C4_ToggleIdempotent ==
    [][ (ToggleMessage /\ enabled' = enabled) => Observable' = Observable ]_vars

\* The controller holds nothing and shows nothing.
TornDown ==
    /\ ~observer
    /\ ~resizeObserver
    /\ leakedResizeObservers = 0
    /\ listeners = { }
    /\ subtitleOverlay # "null" => (overlay.display = "none" /\ overlay.opacity = "0")
    /\ currentSubtitleText = << >>
    /\ \A id \in CaptionSet : elem[id].marker = "absent"

\* C5: whenever the enabled flag is false the controller is fully torn down.
C5_DisabledIsTornDown == ~enabled => TornDown

\* C6: while enabled, after a watcher callback has run the tracked video is the
\* video that is in the document.
C6_VideoReResolved ==
    [][ (MutationCallback /\ enabled /\ docVideo # "null")
        => videoElement' = docVideo ]_vars

\* A callback of the controller runs.
Callback ==
    \/ SettleTimer
    \/ AnimationFrame
    \/ WindowScroll
    \/ WindowResize
    \/ MutationCallback
    \/ MutationThrottled
    \/ ResizeObserved
    \/ FullscreenChange

\* C7: a callback that runs while the enabled flag is false ends without an
\* exception, leaves the overlay's opacity, display and text as they are and hides
\* no caption element (nor the overlay as one).
C7_LateCallbackHarmless ==
    [][ (~enabled /\ Callback) =>
          ( /\ ~threw'
            /\ overlay'.opacity = overlay.opacity
            /\ overlay'.display = overlay.display
            /\ overlay'.text = overlay.text
            /\ overlay'.marker = overlay.marker
            /\ elem' = elem ) ]_vars

\* Switched off by a message, the overlay hidden, after the settle timer of a
\* fullscreen entry moved the overlay and asked for a frame that is still to run.
C7_Witness ==
    /\ ~enabled
    /\ ~threw
    /\ listeners = { }
    /\ overlay.display = "none"
    /\ overlay.opacity = "0"
    /\ overlay.parent = "container"
    /\ timers = 0
    /\ frames = 1
    /\ resizeObserver = FALSE
    /\ leakedResizeObservers > 0

\* The rectangle has no point in the viewport.
OutsideViewport(rect) ==
    \/ rect.bottom <= 0
    \/ rect.top >= Window.innerHeight
    \/ rect.right <= 0
    \/ rect.left >= Window.innerWidth

\* A position recompute runs with everything it needs.
Recompute ==
    /\ AnimationFrame \/ ResizeObserved
    /\ enabled
    /\ currentSubtitleText # << >>
    /\ videoElement # "null"

\* C9: enabled and with a caption cached, a position recompute hides the overlay
\* (opacity 0) when the video's rectangle is outside the viewport and the video is
\* not fullscreen, and shows it (opacity 1) when the rectangle reaches into the
\* viewport; either way the overlay text and the cached text stay as they are.
C9_OffscreenHidesKeepsText ==
    [][ Recompute =>
          LET rect == BoundingClientRect(World, videoElement)
          IN  /\ (OutsideViewport(rect) /\ ~isVideoFullscreen(World))
                    => overlay'.opacity = "0"
              /\ ~OutsideViewport(rect) => overlay'.opacity = "1"
              /\ overlay'.text = overlay.text
              /\ currentSubtitleText' = currentSubtitleText ]_vars

\* The video scrolled out of view: the overlay is transparent and keeps its text.
C9_Witness ==
    /\ enabled
    /\ currentSubtitleText # << >>
    /\ overlay.text = currentSubtitleText
    /\ overlay.opacity = "0"
    /\ videoElement = docVideo
    /\ videoRect = RectAbove
    /\ frames = 0

----------------------------------------------------------------------------
(* Coalescing, caching and teardown *)

\* A step in which requestPositionUpdate is called by an enabled controller.
Requests == (WindowScroll \/ WindowResize \/ MutationCallback) /\ enabled

\* C11: at most one animation-frame callback is outstanding, pendingPositionUpdate
\* is true exactly when one is, a request leaves exactly one outstanding however
\* many were made before, and the frame leaves none, so the next request schedules
\* a new one.
C11_OneFramePending ==
    /\ [](frames <= 1 /\ (pendingPositionUpdate <=> frames = 1))
    /\ [][ Requests => (frames' = 1 /\ pendingPositionUpdate') ]_vars
    /\ [][ AnimationFrame => (frames' = 0 /\ ~pendingPositionUpdate') ]_vars

\* A second request arrived while a frame was outstanding; one frame is outstanding.
C11_Witness ==
    /\ enabled
    /\ frames = 1
    /\ pendingPositionUpdate
    /\ throttled
    /\ overlay.text # << >>
    /\ overlay.pos # << >>

\* The caption the one caption element of the page carries.
NativeText == Trim(elem["c1"].text)

\* C12: enabling empties the cached text, nothing but a watcher check fills it,
\* and a watcher check that runs enabled with an empty cache over a caption
\* element with text T writes T to the overlay and makes it visible, also when T
\* is the text the overlay showed before the controller was disabled.
C12_SameCaptionShownAgain ==
    /\ [][ ((ToggleMessage \/ StorageResolved) /\ enabled')
              => currentSubtitleText' = << >> ]_vars
    /\ [][ (currentSubtitleText = << >> /\ currentSubtitleText' # << >>)
              => MutationCallback ]_vars
    /\ [][ (MutationCallback /\ enabled /\ currentSubtitleText = << >>
              /\ elem["c1"].present /\ NativeText # << >>)
              => /\ overlay'.text = NativeText
                 /\ overlay'.opacity = "1"
                 /\ overlay'.display = "block"
                 /\ currentSubtitleText' = NativeText ]_vars

\* Enabled again after a disable: the overlay still holds the caption it showed,
\* the cache is empty, the element carries the same caption and a check is due.
C12_Witness ==
    /\ enabled
    /\ currentSubtitleText = << >>
    /\ overlay.text # << >>
    /\ overlay.text = NativeText
    /\ elem["c1"].present
    /\ overlay.opacity = "0"
    /\ overlay.display = "block"
    /\ mutationPending
    /\ ~throttled

\* The text a watcher check would extract from the document.
Extracted == extractSubtitleText(findSubtitleElements(Document(World)))

\* C13: updateSubtitleOverlay applied a second time with the same text leaves the
\* overlay's text, opacity and display as the first application left them; and a
\* watcher check that extracts the cached text does not write the overlay text
\* (the text is unchanged and no mutation record is queued).
C13_SameTextIdempotent ==
    /\ [] ((enabled /\ subtitleOverlay # "null") =>
             \A text \in { << "a" >>, << "b" >>, << "a", " ", "b" >> } :
                LET once  == updateSubtitleOverlay(World, text)
                    twice == updateSubtitleOverlay(once, text)
                IN  /\ once.overlay.text = text
                    /\ twice.overlay.text = once.overlay.text
                    /\ twice.overlay.opacity = once.overlay.opacity
                    /\ twice.overlay.display = once.overlay.display)
    /\ [][ (MutationCallback /\ enabled /\ Extracted # << >>
              /\ Extracted = currentSubtitleText)
              => (overlay'.text = overlay.text /\ ~mutationPending') ]_vars

\* A check has run over a caption that was already cached and shown.
C13_Witness ==
    /\ enabled
    /\ currentSubtitleText # << >>
    /\ currentSubtitleText = NativeText
    /\ overlay.text = currentSubtitleText
    /\ elem["c1"].present
    /\ elem["c1"].original = ""
    /\ elem["c1"].marker = "none"
    /\ throttled
    /\ ~mutationPending

\* What cleanup leaves of the controller.
Disabled ==
    /\ ~enabled
    /\ ~observer
    /\ ~resizeObserver
    /\ listeners = { }
    /\ nativeSubtitleElements = << >>
    /\ currentSubtitleText = << >>
    /\ subtitleOverlay # "null" => (overlay.display = "none" /\ overlay.opacity = "0")

\* C14: a toggle-off message is processed without an exception in every state,
\* also before the overlay exists, without a video and with no caption element
\* ever matched, and leaves the controller disabled.
C14_DisableNeverThrows ==
    [][ ToggleOff => (~threw' /\ Disabled') ]_vars

\* Switched off (the overlay carries the class hideOverlay adds) after an enabled
\* period without a video element and with nothing hidden.
C14_Witness ==
    /\ ~enabled
    /\ ~threw
    /\ subtitleOverlay = "ov"
    /\ overlay.hidden
    /\ overlay.text = << >>
    /\ videoElement = "null"
    /\ nativeSubtitleElements = << >>

----------------------------------------------------------------------------
(* Properties of the extension *)

\* C15: when the tabs.onUpdated handler has read the store for a tab that finished
\* loading, it sends the tab a toggleSubtitles message with the stored value,
\* whether that is true or false.
C15_ResendsStoredValue ==
    [][ TabUpdateResolved => inbox' = Append(inbox, EnabledOr(stored)) ]_vars

\* The user has switched the toggle of the loaded popup on, for the first time,
\* after the install handler finished.
FirstSwitchOn ==
    /\ installed = "done"
    /\ popup.state = "ready"
    /\ popup.clicks = 1
    /\ popup.checked
    /\ sets = << TRUE >>

----------------------------------------------------------------------------
(* Fullscreen *)

----------------------------------------------------------------------------
(* Convergence, the native list, the throttle *)

\* C18: the enabled flag ends at the value of the last toggle message delivered.
\* Until the storage read resolves only messages write the flag, and an overlay
\* exists only once a message with enabled true was processed; so when the read
\* resolves with the overlay in place, the flag must stay at the value the last
\* message gave it.
C18_LastMessageWins ==
    [][ (StorageRead /\ subtitleOverlay # "null") => enabled' = enabled ]_vars

\* C19: the overlay node is never an element of the native caption list.
C19_OverlayNotNative ==
    \A i \in 1..Len(nativeSubtitleElements) : nativeSubtitleElements[i] # "ov"

\* The watcher's callback can run: records are queued and the throttle is open.
CallbackDue == observer /\ mutationPending /\ ~throttled

\* Observers deliver their records and time passes; the page and the user are
\* free.  The third conjunct is weak fairness of MutationCallback with its
\* enabling condition written out.
FairWatcher ==
    /\ WF_vars(MutationThrottled)
    /\ WF_vars(TimePasses)
    /\ ([]<>(~CallbackDue) \/ []<><<MutationCallback>>_vars)

\* A page whose caption text changes under a controller that is switched on, if at
\* all, by its storage read.
NextWatcher ==
    \/ StorageResolved
    \/ StorageFailed
    \/ CaptionText
    \/ MutationCallback
    \/ MutationThrottled
    \/ TimePasses
    \/ AnimationFrame

SpecWatcher == InitPlayer /\ [][NextWatcher]_vars /\ FairWatcher

\* The caption element has just been given the text "b" under a watching, enabled
\* controller: the mutation record is queued.
CaptionChanged ==
    /\ enabled
    /\ observer
    /\ mutationPending
    /\ elem["c1"].present
    /\ elem["c1"].text = << " ", "b" >>

\* C20: a caption text set while the controller is enabled and watching reaches
\* the overlay, unless the controller is switched off or the caption changes again.
C20_CaptionEventuallyShown ==
    CaptionChanged ~>
        \/ overlay.text = << "b" >>
        \/ ~enabled
        \/ ~elem["c1"].present
        \/ elem["c1"].text # << " ", "b" >>

----------------------------------------------------------------------------
(* The overlay node *)

\* The overlay node is made in this step.
Created == subtitleOverlay = "null" /\ subtitleOverlay' # "null"

\* C21: at most one overlay node is ever made, the controller holds it from then
\* on, it has one parent, and every step that changes its parent is either its
\* creation (under the body) or a settle timer moving it to the body or to the
\* element that is fullscreen at that moment.
C21_OneOverlayNode ==
    /\ [](overlayNodes <= 1 /\ (overlayNodes = 1 <=> subtitleOverlay # "null"))
    /\ [](subtitleOverlay # "null" => overlay.parent \in { "body", "container", "root" })
    /\ [][ subtitleOverlay # "null" => subtitleOverlay' = subtitleOverlay ]_vars
    /\ [][ overlay'.parent # overlay.parent
              => \/ Created /\ overlay'.parent = "body"
                 \/ /\ SettleTimer
                    /\ overlay'.parent \in { "body", fullscreenElement } ]_vars

\* The one node, made once, sits in the fullscreen container of a controller that
\* was initialised a second time.
C21_Witness ==
    /\ overlayNodes = 1
    /\ subtitleOverlay = "ov"
    /\ overlay.parent = "container"
    /\ enabled
    /\ leakedResizeObservers = 1

====
